---- MODULE Spec2Model ----
(***************************************************************************)
(* Model of checkov/terraform/module_loading/module_finder.py:             *)
(* find_modules (the line scanner), should_download, ModuleDownload and    *)
(* load_tf_modules (deduplication, batch planning, batch-wise concurrent   *)
(* download through module_loader_registry.load).                          *)
(*                                                                         *)
(* Strings are sequences of one-character strings.  Python's None is the   *)
(* one-element sequence NoneVal, which no character string can equal.      *)
(***************************************************************************)
EXTENDS Integers, Sequences, FiniteSets, TLC

\* ------------------------------------------------------------------ bounds
MaxFiles == 2       \* files of the tree, yielded by os.walk in one run
MaxBlocks == 2      \* module blocks opened in one run

\* ------------------------------------------------------------ string basics
NoneVal == <<"<None>">>
NoMatch == <<"<NoMatch>">>
\* Python None where a ModuleDownload object is expected
NoneRef == [none |-> TRUE]

Digits == {"0", "1", "2", "3", "4", "5", "6", "7", "8", "9"}
Letters == {"a", "b", "c", "d", "e", "f", "g", "h", "i", "j", "k", "l", "m",
            "n", "o", "p", "q", "r", "s", "t", "u", "v", "w", "x", "y", "z"}
WordChars == Letters \cup Digits \cup {"_"}
Whitespace == {" ", "\t"}
Quote == "\""

\* str.startswith
StartsWith(s, prefix) ==
    /\ Len(prefix) <= Len(s)
    /\ SubSeq(s, 1, Len(prefix)) = prefix

\* str.endswith
EndsWith(s, suffix) ==
    /\ Len(suffix) <= Len(s)
    /\ SubSeq(s, Len(s) - Len(suffix) + 1, Len(s)) = suffix

\* the substring w occurs in s at position i
HasAt(s, i, w) ==
    /\ i + Len(w) - 1 <= Len(s)
    /\ SubSeq(s, i, i + Len(w) - 1) = w

\* \s* : the first position at or after i that holds no whitespace
RECURSIVE SkipWs(_, _)
SkipWs(s, i) ==
    IF i <= Len(s) /\ s[i] \in Whitespace THEN SkipWs(s, i + 1) ELSE i

\* position of the last double quote of s, 0 if there is none
LastQuote(s) ==
    LET qs == {q \in 1..Len(s) : s[q] = Quote}
    IN  IF qs = {} THEN 0 ELSE CHOOSE q \in qs : \A r \in qs : r <= q

\* \bkw\s*=\s*" at position i: the position of the opening quote, else 0
QuoteOpen(s, i, kw) ==
    IF (i = 1 \/ s[i - 1] \notin WordChars) /\ HasAt(s, i, kw)
    THEN LET j == SkipWs(s, i + Len(kw))
         IN  IF j <= Len(s) /\ s[j] = "="
             THEN LET k == SkipWs(s, j + 1)
                  IN  IF k <= Len(s) /\ s[k] = Quote /\ LastQuote(s) > k
                      THEN k ELSE 0
             ELSE 0
    ELSE 0

\* the leading greedy .* : the rightmost keyword position that matches
KeywordQuote(s, kw) ==
    LET ks == {i \in 1..Len(s) : QuoteOpen(s, i, kw) > 0}
    IN  IF ks = {} THEN 0
        ELSE QuoteOpen(s, CHOOSE i \in ks : \A r \in ks : r <= i, kw)

SourceKw == <<"s", "o", "u", "r", "c", "e">>
VersionKw == <<"v", "e", "r", "s", "i", "o", "n">>
ModuleKw == <<"m", "o", "d", "u", "l", "e">>

\* re.match('.*\bsource\s*=\s*"(?P<LINK>.*)"', line).group('LINK')
MatchSource(line) ==
    LET k == KeywordQuote(line, SourceKw)
    IN  IF k = 0 THEN NoMatch ELSE SubSeq(line, k + 1, LastQuote(line) - 1)

\* [^\d]* : the last position of the run of non-digits that starts at i
RECURSIVE SkipNonDigits(_, _)
SkipNonDigits(s, i) ==
    IF i <= Len(s) /\ s[i] \notin Digits THEN SkipNonDigits(s, i + 1) ELSE i - 1

\* MatchVersion with the pattern '.*\bversion\s*=\s*"(?P<VERSION>.*)"'
MatchVersionWholeValue(line) ==
    LET k == KeywordQuote(line, VersionKw)
    IN  IF k = 0 THEN NoMatch
        ELSE SubSeq(line, k + 1, LastQuote(line) - 1)

\* re.match('.*\bversion\s*=\s*"[^\d]*(?P<VERSION>.*)"', line).group('VERSION')
MatchVersion(line) ==
    LET k == KeywordQuote(line, VersionKw)
        e == SkipNonDigits(line, k + 1)
    IN  IF k = 0 THEN NoMatch
        ELSE IF LastQuote(line) > e
             THEN SubSeq(line, e + 1, LastQuote(line) - 1)
             ELSE <<>>

\* ------------------------------------------------------------ ModuleDownload
\* ModuleDownload(source_dir): module_link and version default to None
ModuleDownload(source_dir) ==
    [source_dir |-> source_dir, module_link |-> NoneVal, version |-> NoneVal]

\* str(x) inside an f-string
Str(x) == IF x = NoneVal THEN <<"N", "o", "n", "e">> ELSE x

\* ModuleDownload.address
address(m) == Str(m.module_link) \o <<":">> \o Str(m.version)

\* ------------------------------------------------------------ should_download
\* should_download without the test for "../"
should_download_no_parent(path) ==
    ~ (\/ StartsWith(path, <<".", "/">>)
       \/ StartsWith(path, <<"/">>))

should_download(path) ==
    ~ (\/ StartsWith(path, <<".", "/">>)
       \/ StartsWith(path, <<".", ".", "/">>)
       \/ StartsWith(path, <<"/">>))

\* ------------------------------------------------------------- the file tree
SourceLine(v) == <<" ", " ">> \o SourceKw \o <<" ", "=", " ", Quote>> \o v \o <<Quote>>
VersionLine(v) == <<" ", " ">> \o VersionKw \o <<" ", "=", " ", Quote>> \o v \o <<Quote>>

OpenLine == ModuleKw \o <<" ", Quote, "m", Quote, " ", "{">>
CloseLine == <<"}">>
OtherLine == <<" ", " ", "c", "o", "u", "n", "t", " ", "=", " ", "1">>

LinkTexts == { <<"a">>, <<"a", ":", "1">>, <<".", "/", "a">>, <<>> }
VersionTexts == { <<"x">>, <<"v", "1", ":">> }

\* the lines a configuration file of the tree may hold
Lines ==
    {OpenLine, CloseLine, OtherLine}
        \cup {SourceLine(v) : v \in LinkTexts}
        \cup {VersionLine(v) : v \in VersionTexts}

TfName == <<"m", ".", "t", "f">>
OtherName == <<"m", ".", "m", "d">>
FileNames == {TfName, OtherName}

\* --------------------------------------------------------------- dictionaries
\* A dict is the sequence of its items in insertion order.
DictHas(d, k) == \E i \in 1..Len(d) : d[i].key = k

\* DictPut as d.setdefault(k, v): the first value of a key is kept
DictPutFirstWins(d, k, v) ==
    IF DictHas(d, k) THEN d ELSE Append(d, [key |-> k, value |-> v])

\* d[k] = v : an existing key keeps its position and takes the new value
DictPut(d, k, v) ==
    IF DictHas(d, k)
    THEN [i \in 1..Len(d) |-> IF d[i].key = k THEN [key |-> k, value |-> v] ELSE d[i]]
    ELSE Append(d, [key |-> k, value |-> v])

\* d.values()
DictValues(d) == [i \in 1..Len(d) |-> d[i].value]

\* {m.address: m for m in ms}
RECURSIVE AddressDict(_)
AddressDict(ms) ==
    IF ms = <<>> THEN <<>>
    ELSE LET m == ms[Len(ms)]
         IN  DictPut(AddressDict(SubSeq(ms, 1, Len(ms) - 1)), address(m), m)

\* load_tf_modules, line 88
DistinctModules(ms) == DictValues(AddressDict(ms))

\* ------------------------------------------------------------- batch planner
\* lines 94-99: the index of the last batch of the leading run of batches
\* that hold the link (0 stands for the code's -1, batches count from 1)
\* ScanBatches without the assignment found = i
ScanBatchesNeverFound(bs, link, i, found) == 0

RECURSIVE ScanBatches(_, _, _, _)
ScanBatches(bs, link, i, found) ==
    IF i > Len(bs) THEN found
    ELSE IF DictHas(bs[i], link) THEN ScanBatches(bs, link, i + 1, i)
    ELSE found

\* PlaceModule with the batches keyed by m.address instead of m.module_link
PlaceModuleByAddress(bs, m) ==
    LET found == ScanBatches(bs, address(m), 1, 0)
    IN  IF found = Len(bs)
        THEN Append(bs, <<[key |-> address(m), value |-> m]>>)
        ELSE [bs EXCEPT ![found + 1] = DictPut(bs[found + 1], address(m), m)]

\* PlaceModule that opens a new batch for every module
PlaceModuleAlwaysAppend(bs, m) ==
    Append(bs, <<[key |-> m.module_link, value |-> m]>>)

\* PlaceModule that tries the last batch only (next-fit)
PlaceModuleNextFit(bs, m) ==
    IF bs = <<>> \/ DictHas(bs[Len(bs)], m.module_link)
    THEN Append(bs, <<[key |-> m.module_link, value |-> m]>>)
    ELSE [bs EXCEPT ![Len(bs)] = DictPut(bs[Len(bs)], m.module_link, m)]

\* PlaceModule that scans the batches from the last to the first (last-fit)
PlaceModuleLastFit(bs, m) ==
    LET free == {i \in 1..Len(bs) : ~DictHas(bs[i], m.module_link)}
    IN  IF free = {}
        THEN Append(bs, <<[key |-> m.module_link, value |-> m]>>)
        ELSE LET i == CHOOSE i \in free : \A r \in free : r <= i
             IN  [bs EXCEPT ![i] = DictPut(bs[i], m.module_link, m)]

\* lines 93-103, one iteration of the loop over distinct_modules
PlaceModule(bs, m) ==
    LET found == ScanBatches(bs, m.module_link, 1, 0)
    IN  IF found = Len(bs)
        THEN Append(bs, <<[key |-> m.module_link, value |-> m]>>)
        ELSE [bs EXCEPT ![found + 1] = DictPut(bs[found + 1], m.module_link, m)]

\* ------------------------------------------------------------ the loader call
Latest == <<"l", "a", "t", "e", "s", "t">>

\* "latest" if not m.version else m.version
EffectiveVersion(m) ==
    IF m.version = NoneVal \/ m.version = <<>> THEN Latest ELSE m.version

\* LoadArgs with the test "m.version is None" in place of "not m.version"
LoadArgsRawVersion(m) ==
    [source_dir |-> m.source_dir, link |-> m.module_link,
     version |-> IF m.version = NoneVal THEN Latest ELSE m.version]

\* the arguments of module_loader_registry.load, lines 80-81
LoadArgs(m) ==
    [source_dir |-> m.source_dir, link |-> m.module_link, version |-> EffectiveVersion(m)]

LoadOutcomes == {"loaded", "not_loaded", "raised"}
ReadErrors == {"UnicodeDecodeError", "FileNotFoundError"}

\* ------------------------------------------------------------------- state
VARIABLES
    pc,                         \* position of load_tf_modules
    download_external_modules,  \* module_loader_registry.download_external_modules
    root_dir,                   \* module_loader_registry.root_dir
    config_writes,              \* number of writes to the registry configuration
    files_seen,                 \* files os.walk has yielded so far
    file_open,                  \* a file is open and being read
    in_module,                  \* find_modules: in_module
    curr_md,                    \* find_modules: curr_md
    modules_found,              \* find_modules: modules_found
    blocks_opened,              \* block-opening lines seen while outside a block
    skipped_file,               \* find_modules: file named by its last warning of line 61, 0 if none
    modules_to_load,            \* load_tf_modules: modules_to_load
    distinct_modules,           \* load_tf_modules: distinct_modules
    placed,                     \* distinct_modules already placed in a batch
    batches,                    \* load_tf_modules: batches
    batch_no,                   \* the batch the executor loop is at, 0 before the first
    executor_open,              \* a ThreadPoolExecutor is open for batch batch_no
    tasks                       \* per batch, the tasks submitted: status and load arguments

scan_vars == <<files_seen, file_open, in_module, curr_md, modules_found,
               blocks_opened, skipped_file>>
reg_vars == <<download_external_modules, root_dir, config_writes>>
plan_vars == <<modules_to_load, distinct_modules, placed, batches>>
exec_vars == <<batch_no, executor_open, tasks>>
vars == <<pc, reg_vars, scan_vars, plan_vars, exec_vars>>

Path == <<"p">>

Init ==
    /\ pc = "start"
    /\ download_external_modules = FALSE
    /\ root_dir = NoneVal
    /\ config_writes = 0
    /\ files_seen = 0
    /\ file_open = FALSE
    /\ in_module = FALSE
    /\ curr_md = NoneRef
    /\ modules_found = <<>>
    /\ blocks_opened = 0
    /\ skipped_file = 0
    /\ modules_to_load = <<>>
    /\ distinct_modules = <<>>
    /\ placed = 0
    /\ batches = <<>>
    /\ batch_no = 0
    /\ executor_open = FALSE
    /\ tasks = <<>>

\* load_tf_modules, lines 72-74: configure the registry, then call find_modules
SetConfig ==
    /\ pc = "start"
    /\ download_external_modules' = TRUE
    /\ root_dir' = Path
    /\ config_writes' = config_writes + 1
    /\ pc' = "scan"
    /\ UNCHANGED <<scan_vars, plan_vars, exec_vars>>

\* ---------------------------------------------------------------- find_modules
\* lines 29-31: os.walk yields a file whose name does not end in .tf
SkipFile(file_name) ==
    /\ pc = "scan" /\ ~file_open /\ files_seen < MaxFiles
    /\ ~EndsWith(file_name, <<".", "t", "f">>)
    /\ files_seen' = files_seen + 1
    /\ UNCHANGED <<pc, reg_vars, file_open, in_module, curr_md, modules_found,
                   blocks_opened, skipped_file, plan_vars, exec_vars>>

\* OpenFile with lines 34-35 moved in front of the loop over the files
OpenFileNoReset(file_name) ==
    /\ pc = "scan" /\ ~file_open /\ files_seen < MaxFiles
    /\ EndsWith(file_name, <<".", "t", "f">>)
    /\ files_seen' = files_seen + 1
    /\ file_open' = TRUE
    /\ UNCHANGED <<pc, reg_vars, in_module, curr_md, modules_found,
                   blocks_opened, skipped_file, plan_vars, exec_vars>>

\* lines 29-35: a .tf file is opened, the scanner state is reset
OpenFile(file_name) ==
    /\ pc = "scan" /\ ~file_open /\ files_seen < MaxFiles
    /\ EndsWith(file_name, <<".", "t", "f">>)
    /\ files_seen' = files_seen + 1
    /\ file_open' = TRUE
    /\ in_module' = FALSE
    /\ curr_md' = NoneRef
    /\ UNCHANGED <<pc, reg_vars, modules_found, blocks_opened, skipped_file,
                   plan_vars, exec_vars>>

\* line 32: open() raises FileNotFoundError, outside the try of line 33;
\* the exception leaves find_modules and load_tf_modules
OpenFails(file_name) ==
    /\ pc = "scan" /\ ~file_open /\ files_seen < MaxFiles
    /\ EndsWith(file_name, <<".", "t", "f">>)
    /\ files_seen' = files_seen + 1
    /\ pc' = "crashed"
    /\ UNCHANGED <<reg_vars, file_open, in_module, curr_md, modules_found,
                   blocks_opened, skipped_file, plan_vars, exec_vars>>

\* lines 36-59: the loop body for one line of the open file
ScanLine(line) ==
    IF ~in_module /\ StartsWith(line, ModuleKw)
    THEN /\ in_module' = TRUE
         /\ curr_md' = ModuleDownload(files_seen)
         /\ blocks_opened' = blocks_opened + 1
         /\ UNCHANGED modules_found
    ELSE IF in_module /\ StartsWith(line, <<"}">>)
    THEN /\ in_module' = FALSE
         /\ modules_found' = IF curr_md.module_link = NoneVal
                             THEN modules_found
                             ELSE Append(modules_found, curr_md)
         /\ curr_md' = NoneRef
         /\ UNCHANGED blocks_opened
    ELSE IF in_module /\ MatchSource(line) # NoMatch
    THEN /\ curr_md' = [curr_md EXCEPT !.module_link = MatchSource(line)]
         /\ UNCHANGED <<in_module, modules_found, blocks_opened>>
    ELSE IF in_module /\ MatchVersion(line) # NoMatch
    THEN /\ curr_md' = [curr_md EXCEPT !.version = MatchVersion(line)]
         /\ UNCHANGED <<in_module, modules_found, blocks_opened>>
    ELSE UNCHANGED <<in_module, curr_md, modules_found, blocks_opened>>

ReadLine(line) ==
    /\ pc = "scan" /\ file_open
    /\ (~in_module /\ StartsWith(line, ModuleKw)) => blocks_opened < MaxBlocks
    /\ ScanLine(line)
    /\ UNCHANGED <<pc, reg_vars, files_seen, file_open, skipped_file,
                   plan_vars, exec_vars>>

\* lines 36, 60-62: reading the next line raises; the warning of line 61
\* names the file as skipped, and the loop goes on to the next file
ReadFails(e) ==
    /\ pc = "scan" /\ file_open
    /\ e \in ReadErrors
    /\ file_open' = FALSE
    /\ skipped_file' = files_seen
    /\ UNCHANGED <<pc, reg_vars, files_seen, in_module, curr_md, modules_found,
                   blocks_opened, plan_vars, exec_vars>>

\* line 36: the file is exhausted
EndOfFile ==
    /\ pc = "scan" /\ file_open
    /\ file_open' = FALSE
    /\ UNCHANGED <<pc, reg_vars, files_seen, in_module, curr_md, modules_found,
                   blocks_opened, skipped_file, plan_vars, exec_vars>>

\* lines 64, 74: os.walk is exhausted, find_modules returns modules_found
ReturnModules ==
    /\ pc = "scan" /\ ~file_open /\ files_seen = MaxFiles
    /\ modules_to_load' = modules_found
    /\ in_module' = FALSE
    /\ curr_md' = NoneRef
    /\ pc' = "dedup"
    /\ skipped_file' = 0
    /\ UNCHANGED <<reg_vars, files_seen, file_open, modules_found, blocks_opened,
                   distinct_modules, placed, batches, exec_vars>>

\* ------------------------------------------------------------- load_tf_modules
\* line 88
Deduplicate ==
    /\ pc = "dedup"
    /\ distinct_modules' = DistinctModules(modules_to_load)
    /\ pc' = "plan"
    /\ UNCHANGED <<reg_vars, scan_vars, modules_to_load, placed, batches, exec_vars>>

\* lines 93-103: one reference is placed
PlanStep ==
    /\ pc = "plan" /\ placed < Len(distinct_modules)
    /\ batches' = PlaceModule(batches, distinct_modules[placed + 1])
    /\ placed' = placed + 1
    /\ UNCHANGED <<pc, reg_vars, scan_vars, modules_to_load, distinct_modules, exec_vars>>

\* lines 105-106: the next batch gets its ThreadPoolExecutor
EnterBatch ==
    /\ pc = "plan" /\ placed = Len(distinct_modules)
    /\ ~executor_open /\ batch_no < Len(batches)
    /\ batch_no' = batch_no + 1
    /\ executor_open' = TRUE
    /\ tasks' = Append(tasks, <<>>)
    /\ UNCHANGED <<pc, reg_vars, scan_vars, plan_vars>>

\* line 108: executor.submit(_download_module, m) for the next m of b.values()
Submit ==
    /\ executor_open
    /\ Len(tasks[batch_no]) < Len(batches[batch_no])
    /\ tasks' = [tasks EXCEPT ![batch_no] =
                    Append(@, [st |-> "pending", args |-> NoneVal])]
    /\ UNCHANGED <<pc, reg_vars, scan_vars, plan_vars, batch_no, executor_open>>

\* TaskStart with _download_module pointing the registry at the directory of
\* the reference before it calls load
TaskStartSetsRootDir(b, j) ==
    /\ b \in 1..Len(tasks) /\ j \in 1..Len(tasks[b])
    /\ tasks[b][j].st = "pending"
    /\ LET m == batches[b][j].value
       IN  tasks' = [tasks EXCEPT ![b][j] =
                IF should_download(m.module_link)
                THEN [st |-> "loading", args |-> LoadArgs(m)]
                ELSE [st |-> "not_downloaded", args |-> NoneVal]]
    /\ root_dir' = Path
    /\ config_writes' = config_writes + 1
    /\ UNCHANGED <<pc, download_external_modules, scan_vars, plan_vars,
                   batch_no, executor_open>>

\* lines 76-81: a worker runs _download_module(m) up to the call of load.
\* The pool has min(32, cpus + 4) workers, more than a batch of the model has
\* tasks, so every submitted task may start; should_download_module is the
\* default, should_download.
TaskStart(b, j) ==
    /\ b \in 1..Len(tasks) /\ j \in 1..Len(tasks[b])
    /\ tasks[b][j].st = "pending"
    /\ LET m == batches[b][j].value
       IN  tasks' = [tasks EXCEPT ![b][j] =
                IF should_download(m.module_link)
                THEN [st |-> "loading", args |-> LoadArgs(m)]
                ELSE [st |-> "not_downloaded", args |-> NoneVal]]
    /\ UNCHANGED <<pc, reg_vars, scan_vars, plan_vars, batch_no, executor_open>>

\* LoadEnds without the except clause of line 84, the main thread asking for
\* the result of the future: the exception leaves load_tf_modules
LoadEndsUncaught(b, j, outcome) ==
    /\ b \in 1..Len(tasks) /\ j \in 1..Len(tasks[b])
    /\ tasks[b][j].st = "loading"
    /\ outcome \in LoadOutcomes
    /\ tasks' = [tasks EXCEPT ![b][j].st =
                    IF outcome = "raised" THEN "raised" ELSE "returned"]
    /\ pc' = IF outcome = "raised" THEN "crashed" ELSE pc
    /\ UNCHANGED <<reg_vars, scan_vars, plan_vars, batch_no, executor_open>>

\* lines 80-85: load returns loaded content, returns None or content that is
\* not loaded (a warning is logged), or raises (caught, a warning is logged);
\* the task ends in each case
LoadEnds(b, j, outcome) ==
    /\ b \in 1..Len(tasks) /\ j \in 1..Len(tasks[b])
    /\ tasks[b][j].st = "loading"
    /\ outcome \in LoadOutcomes
    /\ tasks' = [tasks EXCEPT ![b][j].st =
                    IF outcome = "raised" THEN "raised" ELSE "returned"]
    /\ UNCHANGED <<pc, reg_vars, scan_vars, plan_vars, batch_no, executor_open>>

TaskOver(t) == t.st \in {"returned", "raised", "not_downloaded"}

\* Join without futures.wait and with executor.shutdown(wait=False)
JoinNoWait ==
    /\ executor_open
    /\ Len(tasks[batch_no]) = Len(batches[batch_no])
    /\ executor_open' = FALSE
    /\ UNCHANGED <<pc, reg_vars, scan_vars, plan_vars, batch_no, tasks>>

\* Join that counts only the futures that hold a result as complete
JoinOnlyReturned ==
    /\ executor_open
    /\ Len(tasks[batch_no]) = Len(batches[batch_no])
    /\ \A j \in 1..Len(tasks[batch_no]) :
          tasks[batch_no][j].st \in {"returned", "not_downloaded"}
    /\ executor_open' = FALSE
    /\ UNCHANGED <<pc, reg_vars, scan_vars, plan_vars, batch_no, tasks>>

\* lines 106-110: futures.wait returns when all futures of the batch are
\* complete, and leaving the with block shuts the executor down
Join ==
    /\ executor_open
    /\ Len(tasks[batch_no]) = Len(batches[batch_no])
    /\ \A j \in 1..Len(tasks[batch_no]) : TaskOver(tasks[batch_no][j])
    /\ executor_open' = FALSE
    /\ UNCHANGED <<pc, reg_vars, scan_vars, plan_vars, batch_no, tasks>>

\* line 105: the loop over the batches is exhausted, load_tf_modules returns
Return ==
    /\ pc = "plan" /\ placed = Len(distinct_modules)
    /\ ~executor_open /\ batch_no = Len(batches)
    /\ pc' = "done"
    /\ UNCHANGED <<reg_vars, scan_vars, plan_vars, exec_vars>>

Next ==
    \/ SetConfig
    \/ \E file_name \in FileNames : SkipFile(file_name)
    \/ \E file_name \in FileNames : OpenFile(file_name)
    \/ \E file_name \in FileNames : OpenFails(file_name)
    \/ \E line \in Lines : ReadLine(line)
    \/ \E e \in ReadErrors : ReadFails(e)
    \/ EndOfFile
    \/ ReturnModules
    \/ Deduplicate
    \/ PlanStep
    \/ EnterBatch
    \/ Submit
    \/ \E b \in 1..Len(tasks) : \E j \in 1..Len(tasks[b]) : TaskStart(b, j)
    \/ \E b \in 1..Len(tasks) : \E j \in 1..Len(tasks[b]) :
          \E outcome \in LoadOutcomes : LoadEnds(b, j, outcome)
    \/ Join
    \/ Return

Spec == Init /\ [][Next]_vars

\* ------------------------------------------- the download of one given module
MaxLinkLen == 3     \* length of the link of the given module
LinkAlphabet == {".", "/", "a"}
LinkStrings == UNION {[1..n -> LinkAlphabet] : n \in 0..MaxLinkLen}

\* load_tf_modules at line 105, find_modules having returned one reference
\* with an arbitrary link
InitDownload ==
    \E link \in LinkStrings :
        LET m == [source_dir |-> 1, module_link |-> link, version |-> NoneVal]
        IN  /\ pc = "plan"
            /\ download_external_modules = TRUE
            /\ root_dir = Path
            /\ config_writes = 1
            /\ files_seen = 1
            /\ file_open = FALSE
            /\ in_module = FALSE
            /\ curr_md = NoneRef
            /\ modules_found = <<m>>
            /\ blocks_opened = 1
            /\ skipped_file = 0
            /\ modules_to_load = <<m>>
            /\ distinct_modules = DistinctModules(<<m>>)
            /\ placed = 1
            /\ batches = PlaceModule(<<>>, m)
            /\ batch_no = 0
            /\ executor_open = FALSE
            /\ tasks = <<>>

NextDownload ==
    \/ EnterBatch
    \/ Submit
    \/ \E b \in 1..Len(tasks) : \E j \in 1..Len(tasks[b]) : TaskStart(b, j)
    \/ \E b \in 1..Len(tasks) : \E j \in 1..Len(tasks[b]) :
          \E outcome \in LoadOutcomes : LoadEnds(b, j, outcome)
    \/ Join
    \/ Return

SpecDownload == InitDownload /\ [][NextDownload]_vars

\* ===================================================================== claims
\* the tasks submitted so far, as (batch, position) pairs
TaskIds == UNION {{<<b, j>> : j \in 1..Len(tasks[b])} : b \in 1..Len(tasks)}
TaskOf(bj) == tasks[bj[1]][bj[2]]
ModuleOf(bj) == batches[bj[1]][bj[2]].value

\* load has been called by the task
LoadInvoked(t) == t.st \in {"loading", "returned", "raised"}

\* C1: at no moment are two Loader.load invocations with the same module link
\* in progress.
C1_NoConcurrentSameLink ==
    \A x \in TaskIds : \A y \in TaskIds :
        (/\ TaskOf(x).st = "loading" /\ TaskOf(y).st = "loading"
         /\ TaskOf(x).args.link = TaskOf(y).args.link) => x = y

\* two load invocations, for different links, are in progress together
C1_Witness ==
    \E x \in TaskIds : \E y \in TaskIds :
        /\ x # y
        /\ TaskOf(x).st = "loading" /\ TaskOf(y).st = "loading"

\* C2: when a Loader invocation of a batch has begun, every task of every
\* earlier batch has been submitted and has completed (returned, raised or
\* skipped its download).
C2_BatchBarrier ==
    \A x \in TaskIds :
        LoadInvoked(TaskOf(x)) =>
            \A b \in 1..(x[1] - 1) :
                /\ Len(tasks[b]) = Len(batches[b])
                /\ \A j \in 1..Len(tasks[b]) : TaskOver(tasks[b][j])

\* a load of the second batch is in progress after a load of the first batch
C2_Witness ==
    \E x \in TaskIds : \E y \in TaskIds :
        /\ x[1] = 1 /\ y[1] = 2
        /\ TaskOf(x).st \in {"returned", "raised"}
        /\ TaskOf(y).st = "loading"

\* the positions of the batches, as (batch, position) pairs
Slots == UNION {{<<b, j>> : j \in 1..Len(batches[b])} : b \in 1..Len(batches)}

\* C3: in the planner, after every placement step, the batches partition the references placed
\* so far: each placed reference sits in exactly one position of one batch,
\* there are no other entries, and no batch holds two references of one link.
C3_BatchesPartition ==
    (pc = "plan" /\ batch_no = 0) =>
        /\ \A k \in 1..placed :
              Cardinality({bj \in Slots : ModuleOf(bj) = distinct_modules[k]}) = 1
        /\ Cardinality(Slots) = placed
        /\ \A x \in Slots : \A y \in Slots :
              (x[1] = y[1] /\ ModuleOf(x).module_link = ModuleOf(y).module_link) => x = y

\* two references of one link have been placed
C3_Witness ==
    /\ pc = "plan" /\ batch_no = 0
    /\ placed = 2
    /\ distinct_modules[1].module_link = distinct_modules[2].module_link
    /\ Len(batches) = 2

\* the calls of load made with the given link and version
LoadsOf(link, version) ==
    {x \in TaskIds : /\ LoadInvoked(TaskOf(x))
                     /\ TaskOf(x).args.link = link
                     /\ TaskOf(x).args.version = version}

\* a reference of the scanner's output that is valid and eligible
ValidEligible(m) ==
    /\ m.module_link # NoneVal /\ m.module_link # <<>>
    /\ should_download(m.module_link)

\* C4: when load_tf_modules has returned, load has been invoked exactly once
\* for every (link, version-or-"latest") pair carried by a valid, eligible
\* reference of the scanner's output.
C4_EachModuleFetchedOnce ==
    pc = "done" =>
        \A i \in 1..Len(modules_to_load) :
            ValidEligible(modules_to_load[i]) =>
                Cardinality(LoadsOf(modules_to_load[i].module_link,
                                    EffectiveVersion(modules_to_load[i]))) = 1

\* C5: a raising load is not fatal and stops no other download: no exception
\* of a task leaves load_tf_modules, and when load_tf_modules has returned,
\* load has been invoked for every eligible reference of every batch.
C5_FaultIsolation ==
    /\ (\E x \in TaskIds : TaskOf(x).st = "raised") => pc # "crashed"
    /\ pc = "done" =>
          \A b \in 1..Len(batches) :
              /\ Len(tasks) >= b /\ Len(tasks[b]) = Len(batches[b])
              /\ \A j \in 1..Len(batches[b]) :
                    should_download(batches[b][j].value.module_link)
                        => LoadInvoked(tasks[b][j])

\* load raised in the first batch, and load_tf_modules has returned after
\* a load of the second batch
C5_Witness ==
    /\ pc = "done"
    /\ \E x \in TaskIds : \E y \in TaskIds :
          /\ x[1] = 1 /\ y[1] = 2
          /\ TaskOf(x).st = "raised"
          /\ TaskOf(y).st = "returned"

\* the link starts with "./", "../" or "/"
LocalPrefixes == { <<".", "/">>, <<".", ".", "/">>, <<"/">> }
HasLocalPrefix(link) ==
    \E p \in LocalPrefixes :
        /\ Len(link) >= Len(p)
        /\ \A i \in 1..Len(p) : link[i] = p[i]

\* C6: under the default predicate, a task whose reference has a link that
\* starts with "./", "../" or "/" ends without calling load, every other task
\* calls load with the link, and when load_tf_modules has returned every
\* reference of the batches has had its task.
C6_EligibilityFilter ==
    /\ \A x \in TaskIds :
          TaskOf(x).st # "pending" =>
              IF HasLocalPrefix(ModuleOf(x).module_link)
              THEN TaskOf(x).st = "not_downloaded" /\ TaskOf(x).args = NoneVal
              ELSE LoadInvoked(TaskOf(x))
                   /\ TaskOf(x).args.link = ModuleOf(x).module_link
    /\ pc = "done" =>
          \A x \in Slots : x \in TaskIds /\ TaskOf(x).st # "pending"

\* load_tf_modules has returned after skipping a "../" link
C6_Witness ==
    /\ pc = "done"
    /\ \E x \in TaskIds :
          /\ StartsWith(ModuleOf(x).module_link, <<".", ".", "/">>)
          /\ TaskOf(x).st = "not_downloaded"

\* C7: every reference of the scanner's output has a non-empty link.
C7_EmittedLinkNonEmpty ==
    \A i \in 1..Len(modules_found) :
        /\ modules_found[i].module_link # NoneVal
        /\ modules_found[i].module_link # <<>>

\* C8: no failure on a configuration file is fatal to find_modules.
C8_ScanNeverFatal == pc # "crashed"

\* the last reference of ms with the link and the version of m
LastSuch(ms, m) ==
    ms[CHOOSE i \in 1..Len(ms) :
          /\ ms[i].module_link = m.module_link /\ ms[i].version = m.version
          /\ \A j \in (i + 1)..Len(ms) :
                ~ (ms[j].module_link = m.module_link /\ ms[j].version = m.version)]

\* C9: when deduplication has been done there is exactly one entry for every address of
\* the scanner's output, no two entries have the same link and version, and
\* every entry is the last reference of the scanner's output, in scan order,
\* that has its link and version.
C9_DedupLastWins ==
    (pc = "plan" /\ placed = 0) =>
        /\ \A i \in 1..Len(modules_to_load) :
              Cardinality({k \in 1..Len(distinct_modules) :
                  address(distinct_modules[k]) = address(modules_to_load[i])}) = 1
        /\ \A k \in 1..Len(distinct_modules) : \A n \in 1..Len(distinct_modules) :
              (/\ distinct_modules[k].module_link = distinct_modules[n].module_link
               /\ distinct_modules[k].version = distinct_modules[n].version) => k = n
        /\ \A k \in 1..Len(distinct_modules) :
              /\ \E i \in 1..Len(modules_to_load) :
                    /\ modules_to_load[i].module_link = distinct_modules[k].module_link
                    /\ modules_to_load[i].version = distinct_modules[k].version
              /\ distinct_modules[k] = LastSuch(modules_to_load, distinct_modules[k])

\* two references of one link and version, found in different directories,
\* have collapsed to the later one
C9_Witness ==
    /\ pc = "plan" /\ placed = 0
    /\ Len(modules_to_load) = 2
    /\ modules_to_load[1].module_link = modules_to_load[2].module_link
    /\ modules_to_load[1].version = modules_to_load[2].version
    /\ modules_to_load[1].source_dir # modules_to_load[2].source_dir
    /\ distinct_modules = <<modules_to_load[2]>>

\* C10: two references of the scanner's output have equal address if and only
\* if they have the same link and the same version.
C10_AddressInjective ==
    \A i \in 1..Len(modules_found) : \A j \in 1..Len(modules_found) :
        (address(modules_found[i]) = address(modules_found[j]))
            <=> (/\ modules_found[i].module_link = modules_found[j].module_link
                 /\ modules_found[i].version = modules_found[j].version)

\* C11 as claimed: every load invocation receives the source_dir and the link
\* of its reference, and the reference's version if the block declared one,
\* "latest" if it declared none.
C11_LoadArgsVersionIfSet ==
    \A x \in TaskIds :
        LoadInvoked(TaskOf(x)) =>
            /\ TaskOf(x).args.source_dir = ModuleOf(x).source_dir
            /\ TaskOf(x).args.link = ModuleOf(x).module_link
            /\ TaskOf(x).args.version =
                  IF ModuleOf(x).version = NoneVal
                  THEN <<"l", "a", "t", "e", "s", "t">>
                  ELSE ModuleOf(x).version

\* C11 as amended: every load invocation receives the source_dir and the link
\* of its reference, and the reference's version if the block declared one
\* and it is not the empty string, "latest" if the block declared none or the
\* declared version is empty.
C11_LoadArgsVersionIfNonEmpty ==
    \A x \in TaskIds :
        LoadInvoked(TaskOf(x)) =>
            /\ TaskOf(x).args.source_dir = ModuleOf(x).source_dir
            /\ TaskOf(x).args.link = ModuleOf(x).module_link
            /\ TaskOf(x).args.version =
                  IF ModuleOf(x).version = NoneVal \/ Len(ModuleOf(x).version) = 0
                  THEN <<"l", "a", "t", "e", "s", "t">>
                  ELSE ModuleOf(x).version

\* load has been invoked for a reference with a version, for one without and
\* for one whose declared version is empty
C11_Witness ==
    /\ \E x \in TaskIds :
          /\ LoadInvoked(TaskOf(x))
          /\ ModuleOf(x).version = <<>>
    /\ \E x \in TaskIds :
          /\ LoadInvoked(TaskOf(x))
          /\ ModuleOf(x).version = NoneVal

\* ------------------------------------------- the planner on a given module set
MaxPlanned == 4     \* deduplicated references handed to the planner

\* the versions the scanner can leave in a reference
PlanVersions == {NoneVal} \cup {MatchVersion(VersionLine(v)) : v \in VersionTexts}
PlanLinks == { <<"a">>, <<"a", ":", "1">>, <<>> }
PlanRefs == [source_dir : {1}, module_link : PlanLinks, version : PlanVersions]

\* the sequences line 88 can produce: no two entries of one address
DedupedLists ==
    {ms \in UNION {[1..n -> PlanRefs] : n \in 0..MaxPlanned} : DistinctModules(ms) = ms}

\* load_tf_modules at line 92, with an arbitrary deduplicated sequence
InitPlanned ==
    \E ms \in DedupedLists :
        /\ pc = "plan"
        /\ download_external_modules = TRUE
        /\ root_dir = Path
        /\ config_writes = 1
        /\ files_seen = MaxFiles
        /\ file_open = FALSE
        /\ in_module = FALSE
        /\ curr_md = NoneRef
        /\ modules_found = ms
        /\ blocks_opened = Len(ms)
        /\ skipped_file = 0
        /\ modules_to_load = ms
        /\ distinct_modules = ms
        /\ placed = 0
        /\ batches = <<>>
        /\ batch_no = 0
        /\ executor_open = FALSE
        /\ tasks = <<>>

NextPlan == PlanStep

SpecPlan == InitPlanned /\ [][NextPlan]_vars

\* the references placed so far
Placed == SubSeq(distinct_modules, 1, placed)

\* the number of references of ms that have the given link
ShareCount(ms, link) == Cardinality({i \in 1..Len(ms) : ms[i].module_link = link})

\* the largest number of references of ms that share one link
MaxShare(ms) ==
    IF ms = <<>> THEN 0
    ELSE LET counts == {ShareCount(ms, ms[k].module_link) : k \in 1..Len(ms)}
         IN  CHOOSE c \in counts : \A d \in counts : d <= c

\* C12: after every placement step the number of batches is the largest
\* number of placed references that share one link: pairwise distinct links
\* give one batch, K references of one link give K batches of one reference.
C12_BatchCount ==
    (pc = "plan" /\ batch_no = 0) =>
        /\ Len(batches) = MaxShare(Placed)
        /\ (placed > 0 /\ \A i \in 1..placed : \A j \in 1..placed :
                i # j => Placed[i].module_link # Placed[j].module_link)
              => Len(batches) = 1
        /\ (\A i \in 1..placed : Placed[i].module_link = Placed[1].module_link)
              => /\ Len(batches) = placed
                 /\ \A b \in 1..Len(batches) : Len(batches[b]) = 1

\* three references that share one link have been placed in three batches
C12_Witness ==
    /\ pc = "plan" /\ placed = 3 /\ placed = Len(distinct_modules)
    /\ \A i \in 1..placed : distinct_modules[i].module_link = distinct_modules[1].module_link
    /\ Len(batches) = 3

\* plain first-fit: the lowest-indexed batch that does not hold the link,
\* 0 when every batch holds it
FirstFitIndex(bs, link) ==
    LET free == {i \in 1..Len(bs) : \A e \in 1..Len(bs[i]) : bs[i][e].key # link}
    IN  IF free = {} THEN 0 ELSE CHOOSE i \in free : \A r \in free : i <= r

FirstFitPlace(bs, m) ==
    LET i == FirstFitIndex(bs, m.module_link)
        item == [key |-> m.module_link, value |-> m]
    IN  IF i = 0 THEN bs \o << <<item>> >>
        ELSE [b \in 1..Len(bs) |-> IF b = i THEN bs[b] \o <<item>> ELSE bs[b]]

RECURSIVE FirstFitAll(_)
FirstFitAll(ms) ==
    IF ms = <<>> THEN <<>>
    ELSE FirstFitPlace(FirstFitAll(SubSeq(ms, 1, Len(ms) - 1)), ms[Len(ms)])

\* C13: after every placement step the batch list is the one plain first-fit
\* produces for the references placed so far.
C13_PlannerIsFirstFit ==
    (pc = "plan" /\ batch_no = 0) => batches = FirstFitAll(Placed)

\* the scan passed a batch that holds the link and stopped at a later batch
\* that does not: the fourth reference went into the second of two batches
C13_Witness ==
    /\ pc = "plan" /\ placed = 4
    /\ Len(batches) = 2
    /\ Len(batches[2]) = 2
    /\ batches[2][2].value = distinct_modules[4]
    /\ DictHas(batches[1], distinct_modules[4].module_link)

\* the links held by a batch
LinksOf(batch) == {batch[e].key : e \in 1..Len(batch)}

\* C18: after every placement step, a link held by a batch is held by every
\* earlier batch, no batch is empty, and no batch is larger than the one
\* before it.
C18_LinkPrefix ==
    (pc = "plan" /\ batch_no = 0) =>
        /\ \A i \in 1..Len(batches) : \A j \in 1..(i - 1) :
              LinksOf(batches[i]) \subseteq LinksOf(batches[j])
        /\ \A i \in 1..Len(batches) : Len(batches[i]) >= 1
        /\ \A i \in 1..(Len(batches) - 1) : Len(batches[i + 1]) <= Len(batches[i])

\* three batches of decreasing size have been built
C18_Witness ==
    /\ pc = "plan" /\ placed = 4
    /\ Len(batches) = 3
    /\ Len(batches[1]) = 2 /\ Len(batches[2]) = 1 /\ Len(batches[3]) = 1

\* ------------------------------------------ planner and executor, scheduled
\* load_tf_modules at line 92, with a deduplicated sequence of at most
\* MaxBlocks references
InitLive ==
    /\ InitPlanned
    /\ Len(distinct_modules) <= MaxBlocks

NextLive ==
    \/ PlanStep
    \/ EnterBatch
    \/ Submit
    \/ \E b \in 1..Len(tasks) : \E j \in 1..Len(tasks[b]) : TaskStart(b, j)
    \/ \E b \in 1..Len(tasks) : \E j \in 1..Len(tasks[b]) :
          \E outcome \in LoadOutcomes : LoadEnds(b, j, outcome)
    \/ Join
    \/ Return

\* The main thread keeps running, the pool runs every submitted task, and
\* every call of load returns or raises.
Fairness ==
    /\ WF_vars(PlanStep)
    /\ WF_vars(EnterBatch)
    /\ WF_vars(Submit)
    /\ WF_vars(\E b \in 1..Len(tasks) : \E j \in 1..Len(tasks[b]) : TaskStart(b, j))
    /\ WF_vars(\E b \in 1..Len(tasks) : \E j \in 1..Len(tasks[b]) :
                  \E outcome \in LoadOutcomes : LoadEnds(b, j, outcome))
    /\ WF_vars(Join)
    /\ WF_vars(Return)

SpecLive == InitLive /\ [][NextLive]_vars /\ Fairness

\* every batch has had all its tasks, and they are over
AllBatchesProcessed ==
    /\ batch_no = Len(batches) /\ Len(tasks) = Len(batches)
    /\ \A b \in 1..Len(batches) :
          /\ Len(tasks[b]) = Len(batches[b])
          /\ \A j \in 1..Len(tasks[b]) : TaskOver(tasks[b][j])

\* while a call of load has not returned, its batch is the open one and no
\* later batch has a task
HungLoadBlocks ==
    \A x \in TaskIds :
        TaskOf(x).st = "loading" =>
            /\ pc = "plan" /\ executor_open
            /\ batch_no = x[1] /\ Len(tasks) = x[1]

\* C14: when every call of load returns or raises, load_tf_modules
\* eventually returns, and then every batch has been processed; as long as a
\* call of load has not returned, its batch is not complete and no task of a
\* later batch has started.
C14_Termination ==
    /\ <>(pc = "done")
    /\ [](pc = "done" => AllBatchesProcessed)
    /\ []HungLoadBlocks

\* load_tf_modules has returned after two batches, a load having raised
C14_Witness ==
    /\ pc = "done"
    /\ Len(batches) = 2
    /\ \E x \in TaskIds : TaskOf(x).st = "raised"

\* C17: the registry configuration is written exactly once in a run of
\* load_tf_modules, before the scan and before any task: nothing is written
\* at the start, and from the first scanner step on there has been one
\* write, download_external_modules is TRUE and root_dir is the path, and no
\* step after the first changes any of them.
C17_ConfigWrittenOnce ==
    /\ [](pc = "start" =>
            /\ config_writes = 0
            /\ files_seen = 0 /\ ~file_open /\ tasks = <<>>)
    /\ [](pc # "start" =>
            /\ config_writes = 1
            /\ download_external_modules = TRUE
            /\ root_dir = Path)
    /\ [][pc # "start" => UNCHANGED reg_vars]_vars

\* a load is running in the second batch, after a scan of two files
C17_Witness ==
    /\ config_writes = 1
    /\ files_seen = MaxFiles
    /\ \E x \in TaskIds : x[1] = 2 /\ TaskOf(x).st = "loading"

\* C19: curr_md is an object exactly when in_module; opening a file sets
\* in_module to False and curr_md to None; ending a file, at its end or on
\* an error, appends nothing to modules_found; modules_found is never longer
\* than the number of block-opening lines seen outside a block.
C19_ScannerState ==
    /\ []((curr_md # NoneRef) <=> in_module)
    /\ [](Len(modules_found) <= blocks_opened)
    /\ [][(~file_open /\ file_open') => (~in_module' /\ curr_md' = NoneRef)]_vars
    /\ [][(file_open /\ ~file_open') => modules_found' = modules_found]_vars

\* the second file is being read outside a block after the first file ended
\* inside one: one block opened, nothing emitted
C19_Witness ==
    /\ pc = "scan" /\ file_open /\ files_seen = 2
    /\ ~in_module /\ curr_md = NoneRef
    /\ blocks_opened = 1 /\ modules_found = <<>>

\* ------------------------------------------------- the scan of the last file
\* find_modules at line 29 when os.walk is about to yield the last file of
\* the tree, the files before it having had names that do not end in .tf
InitScan ==
    /\ pc = "scan"
    /\ download_external_modules = TRUE
    /\ root_dir = Path
    /\ config_writes = 1
    /\ files_seen = MaxFiles - 1
    /\ file_open = FALSE
    /\ in_module = FALSE
    /\ curr_md = NoneRef
    /\ modules_found = <<>>
    /\ blocks_opened = 0
    /\ skipped_file = 0
    /\ modules_to_load = <<>>
    /\ distinct_modules = <<>>
    /\ placed = 0
    /\ batches = <<>>
    /\ batch_no = 0
    /\ executor_open = FALSE
    /\ tasks = <<>>

NextScan ==
    \/ \E file_name \in FileNames :
          \/ SkipFile(file_name)
          \/ OpenFile(file_name)
          \/ OpenFails(file_name)
    \/ \E line \in Lines : ReadLine(line)
    \/ \E e \in ReadErrors : ReadFails(e)
    \/ EndOfFile
    \/ ReturnModules

SpecScan == InitScan /\ [][NextScan]_vars

\* t without its leading characters that are not digits
RECURSIVE StripLeadingNonDigits(_)
StripLeadingNonDigits(t) ==
    IF t = <<>> THEN <<>>
    ELSE IF Head(t) \in Digits THEN t
    ELSE StripLeadingNonDigits(Tail(t))

\* C15: inside a block, reading a source line with quoted value v sets the
\* link of the current reference to v and nothing else of it; reading a
\* version line with quoted value t sets its version to t without the
\* leading non-digits; the closing line of a block that has a link appends
\* exactly the current reference, with that link and version.
C15_BlockAssignments ==
    [][ /\ \A v \in LinkTexts :
            (in_module /\ ReadLine(SourceLine(v))) =>
                curr_md' = [curr_md EXCEPT !.module_link = v]
        /\ \A t \in VersionTexts :
            (in_module /\ ReadLine(VersionLine(t))) =>
                curr_md' = [curr_md EXCEPT !.version = StripLeadingNonDigits(t)]
        /\ (in_module /\ curr_md.module_link # NoneVal /\ ReadLine(CloseLine)) =>
                modules_found' = Append(modules_found, curr_md)
      ]_vars

\* a block with source "a" and version "v1:" has been closed
C15_Witness ==
    \E i \in 1..Len(modules_found) :
        /\ modules_found[i].module_link = <<"a">>
        /\ modules_found[i].version = <<"1", ":">>

\* C16: a file named as skipped by the warning of line 61 has no reference
\* in modules_found, the list find_modules returns.
C16_SkippedFileContributesNothing ==
    skipped_file # 0 =>
        \A i \in 1..Len(modules_found) : modules_found[i].source_dir # skipped_file
====
